---- MODULE Spec2Model ----
(***************************************************************************)
(* FreshMart order fulfilment: the order routes (create, update status,    *)
(* cancel), and the admin stock adjustment, as concurrent request handlers *)
(* over the shared product and order collections.                          *)
(*                                                                         *)
(* A handler is an async function: the code between two awaits runs        *)
(* without interruption, and each awaited store call takes effect at one   *)
(* instant.  One action of the model is therefore one store call together  *)
(* with the synchronous code that follows it up to the next store call.    *)
(* A store write may fail (the handler's catch block answers 500); store   *)
(* reads are taken to succeed, a failed read ending the handler through    *)
(* the same catch block before anything is written.                        *)
(*                                                                         *)
(* Spec is the order routes and the stock adjustment under concurrency,    *)
(* SpecTotals the order routes with the amounts, the payment status and    *)
(* the tracking number of an order, SpecStock the stock adjustment on its  *)
(* own, SpecCart the methods of the cart and the order built from a cart,  *)
(* SpecCartRoutes the cart routes under concurrency, SpecUsers the profile *)
(* update and the deletion of the user routes under concurrency.           *)
(***************************************************************************)
EXTENDS Integers, Sequences, FiniteSets, TLC

\* ------------------------------------------------------------------ bounds
NumProducts == 2
NumUsers == 2
MaxStock == 1
MaxQty == 2
MaxItems == 2
MaxInFlight == 2
MaxOrders == 2
MaxRequests == 3
MaxPrice == 2
MaxTotalsOrders == 1
MaxCarts == 1
MaxCartQty == 3
MaxLineQty == 5

Products == 1..NumProducts
Users == 1..NumUsers
\* the caller whose role is admin
Admin == 0
Callers == Users \cup {Admin}
Slots == 1..MaxInFlight

Item == [product : Products, quantity : 1..MaxQty]
ItemLists == UNION {[1..n -> Item] : n \in 1..MaxItems}

OrderStatuses == {"pending", "confirmed", "processing", "shipped", "delivered", "cancelled"}
PaymentStatuses == {"pending", "paid", "failed", "refunded"}
StockOperations == {"set", "add", "subtract"}
\* a request body without an operation
NoOperation == "undefined"
DefaultOperation == "set"

\* Amounts of money are whole numbers of cents and the prices of the products
\* whole currency units; a rate is a whole number of percent, so that the
\* products and sums the handlers compute are exact.
Prices == {100 * k : k \in 1..MaxPrice}
TaxRates == {0, 8, 25}
ShippingCosts == {0, 499}
\* const { ..., taxRate = 0.08, shippingCost = 0 } = req.body
DefaultTaxRate == 8
DefaultShippingCost == 0

\* the first name every account starts with, the first names a profile
\* update gives, and the body of a profile update: a first name, a role or
\* none, an active flag (as the JSON body spells it) or none
InitialFirstName == "Ada"
FirstNames == {"Bob"}
NoValue == "undefined"
ProfileBodies ==
  [firstName : FirstNames, role : {"user", "admin", NoValue}, isActive : {"true", "false", NoValue}]
NoBody == [firstName |-> InitialFirstName, role |-> NoValue, isActive |-> NoValue]

\* the tracking numbers a request gives; a request that gives none, or an
\* empty one, has a falsy trackingNumber
TrackingNumbers == {"TN1", "TN2"}
NoTrackingNumber == ""
\* 3 * 24 * 60 * 60 * 1000 milliseconds, in units of the clock
EstimatedDeliveryDelay == 3

\* ------------------------------------------------------------------- state
VARIABLES
  stock,      \* Product.stock of every product
  catalog,    \* of every product id: its document is absent, inactive or active
  orders,     \* the Order collection; an order's _id is its index
  req,        \* the request each handler slot is serving, with its locals
  nreq,       \* number of requests received so far
  stockVer,   \* history: number of writes made to each product's stock
  price,      \* Product.price of every product
  carts,      \* the Cart collection; a cart's _id is its index
  cartOp,     \* history: the last operation on a cart, with its arguments
  accounts    \* the User collection, by _id

vars == <<stock, catalog, orders, req, nreq, stockVer, price, carts, cartOp, accounts>>
\* what the order routes and the stock adjustment leave alone
shopVars == <<price, carts, cartOp, accounts>>

Role(c) == IF c = Admin THEN "admin" ELSE "user"

ZeroDelta == [p \in Products |-> 0]

\* A slot that serves no request.  Besides the handler's locals a request
\* carries history fields that the code does not have: delta (the net change
\* an order request has made to each product's stock), updated (it has
\* written an order), seenStock / seenVer / seenCatalog (the products as they
\* were when an order creation read them), seenCase (what the order query
\* of a status update or a cancellation met) and seenPay (the payment status
\* of the order a status update read).
IdleReq ==
  [kind |-> "none", pc |-> "idle", caller |-> Admin, items |-> <<>>, oid |-> 0,
   target |-> "pending", prod |-> 0, val |-> 0, given |-> "set", op |-> "set", i |-> 0,
   newStock |-> 0, resp |-> "none", order |-> 0, updated |-> FALSE,
   orderItems |-> <<>>, subtotal |-> 0, taxRate |-> 0, shippingCost |-> 0,
   now |-> 0, pay |-> "pending", seenPay |-> "none", trackingNumber |-> NoTrackingNumber,
   cart |-> 0, quantity |-> 0, itemPrice |-> 0,
   account |-> 0, callerRole |-> "user", body |-> NoBody,
   delta |-> ZeroDelta, seenStock |-> ZeroDelta, seenVer |-> ZeroDelta,
   seenCatalog |-> [p \in Products |-> "active"], seenCase |-> "none"]

\* Every product but the last is on sale; the last one is on sale, inactive
\* or deleted, and the catalog stays as it starts.  Every product starts
\* with MaxStock units.
\* no operation on a cart yet.  tick alternates from one operation to the next.
NoCartOp ==
  [op |-> "none", cart |-> 0, product |-> 0, quantity |-> 0, price |-> 0,
   found |-> FALSE, result |-> "none", tick |-> 0]

Init ==
  /\ stock = [p \in Products |-> MaxStock]
  /\ \E c \in {"active", "inactive", "absent"} :
       catalog = [p \in Products |-> IF p = NumProducts THEN c ELSE "active"]
  /\ orders = <<>>
  /\ req = [r \in Slots |-> IdleReq]
  /\ nreq = 0
  /\ stockVer = ZeroDelta
  /\ price = [p \in Products |-> 100]
  /\ carts = <<>>
  /\ cartOp = NoCartOp
  /\ accounts = [a \in Callers |->
       [exists |-> TRUE, role |-> Role(a), isActive |-> TRUE, firstName |-> InitialFirstName]]

\* new Date(): the time of a request is its number in the order of arrival
Now == nreq + 1

\* A request is received by the lowest slot that serves none; the number of
\* requests of a behaviour is bounded.
CanStart(r) ==
  /\ req[r].pc = "idle"
  /\ nreq < MaxRequests
  /\ \A q \in Slots : q < r => req[q].pc # "idle"

Finish(rec, resp) == [rec EXCEPT !.pc = "done", !.resp = resp]

\* res.status(..).json(..): the handler returns and the slot is free again
Respond(r) ==
  /\ req[r].pc = "done"
  /\ req' = [req EXCEPT ![r] = IdleReq]
  /\ UNCHANGED <<stock, catalog, orders, nreq, stockVer>>
  /\ UNCHANGED shopVars

\* ------------------------------------------------------------ order create
\* fault variant: the query without its isActive filter
MutFindActive(ids) == {p \in ids : catalog[p] # "absent"}
\* Product.find({_id: {$in: productIds}, isActive: true})
FindActive(ids) == {p \in ids : catalog[p] = "active"}

\* fault variant: the products found are counted against the distinct ids
MutProductsAvailable(items, found) ==
  Cardinality(found) = Cardinality({items[k].product : k \in DOMAIN items})
\* products.length !== productIds.length
ProductsAvailable(items, found) == Cardinality(found) = Len(items)

\* fault variant: the check refuses only a product that is out of stock
MutInsufficient(available, requested) == available <= 0
\* product.stock < item.quantity
Insufficient(available, requested) == available < requested

\* the stock check loop: the response of the first item that fails, if any
CheckItems(items, found) ==
  IF \E k \in DOMAIN items : items[k].product \notin found
    THEN "productNotFound"
  ELSE IF \E k \in DOMAIN items : Insufficient(stock[items[k].product], items[k].quantity)
    THEN "insufficient"
  ELSE "pass"

\* orderItems: each item with the price of its product as the request read it
OrderItems(items) ==
  [k \in DOMAIN items |->
     [product |-> items[k].product, quantity |-> items[k].quantity,
      price |-> price[items[k].product],
      total |-> price[items[k].product] * items[k].quantity]]

\* subtotal += itemTotal, over the items in their order
RECURSIVE Subtotal(_)
Subtotal(lines) ==
  IF lines = <<>> THEN 0 ELSE Head(lines).total + Subtotal(Tail(lines))

\* subtotal * taxRate, the rate in percent
TaxAmount(subtotal, taxRate) == (subtotal * taxRate) \div 100

\* fault variant: the shipping cost left out of the total
MutTotalAmount(subtotal, taxAmount, shippingCost) == subtotal + taxAmount
\* subtotal + taxAmount + shippingCost
TotalAmount(subtotal, taxAmount, shippingCost) == subtotal + taxAmount + shippingCost

\* the defaults of the order schema for the fields Order.create is not given
OrderDefaults ==
  [status |-> "pending", paymentStatus |-> "pending", deliveredAt |-> 0,
   trackingNumber |-> NoTrackingNumber, estimatedDelivery |-> 0]

\* Order.create.  History fields: the stock and the write counts the creating
\* request read, the tax rate it gave, the number of items it has reserved,
\* the number of times the order was set to cancelled.
NewOrder(rec) ==
  [customer |-> rec.caller, items |-> rec.orderItems, status |-> OrderDefaults.status,
   paymentStatus |-> OrderDefaults.paymentStatus, deliveredAt |-> OrderDefaults.deliveredAt,
   trackingNumber |-> OrderDefaults.trackingNumber,
   estimatedDelivery |-> OrderDefaults.estimatedDelivery,
   subtotal |-> rec.subtotal,
   taxAmount |-> TaxAmount(rec.subtotal, rec.taxRate),
   shippingCost |-> rec.shippingCost, taxRate |-> rec.taxRate,
   totalAmount |-> TotalAmount(rec.subtotal, TaxAmount(rec.subtotal, rec.taxRate),
                               rec.shippingCost),
   seenStock |-> rec.seenStock,
   seenVer |-> rec.seenVer, reserved |-> 0, cancels |-> 0]

\* fault variant: the decrement takes one unit of each item
MutReserveQty(item) == 0 - 1
\* { $inc: { stock: -item.quantity } }
ReserveQty(item) == 0 - item.quantity

\* Users are interchangeable: the customers of the orders are users 1, 2, ...
\* in the order of their first order.
FirstCustomers(u) ==
  \/ u = 1
  \/ \E o \in DOMAIN orders : orders[o].customer = u - 1
  \/ \E q \in Slots : req[q].kind = "create" /\ req[q].caller = u - 1

OpenCreates == {q \in Slots : req[q].kind = "create" /\ req[q].pc = "create"}

\* the handler up to the call of Order.create
CreateFindWith(r, u, items, taxRate, shippingCost) ==
  /\ CanStart(r)
  /\ Len(orders) + Cardinality(OpenCreates) < MaxOrders
  /\ FirstCustomers(u)
  /\ LET found == FindActive({items[k].product : k \in DOMAIN items})
         rec == [IdleReq EXCEPT !.kind = "create", !.caller = u, !.items = items,
                   !.seenStock = stock, !.seenCatalog = catalog, !.seenVer = stockVer,
                   !.orderItems = OrderItems(items),
                   !.subtotal = Subtotal(OrderItems(items)),
                   !.taxRate = taxRate, !.shippingCost = shippingCost]
     IN req' = [req EXCEPT ![r] =
          IF ~ProductsAvailable(items, found) THEN Finish(rec, "unavailable")
          ELSE IF CheckItems(items, found) # "pass" THEN Finish(rec, CheckItems(items, found))
          ELSE [rec EXCEPT !.pc = "create"]]
  /\ nreq' = nreq + 1
  /\ UNCHANGED <<stock, catalog, orders, stockVer>>
  /\ UNCHANGED shopVars

\* a request that gives no tax rate and no shipping cost
CreateFind(r, u, items) ==
  CreateFindWith(r, u, items, DefaultTaxRate, DefaultShippingCost)

CreateOrder(r) ==
  /\ req[r].kind = "create" /\ req[r].pc = "create"
  /\ \/ /\ orders' = Append(orders, NewOrder(req[r]))
        /\ req' = [req EXCEPT ![r].order = Len(orders) + 1, ![r].pc = "reserve", ![r].i = 1]
     \/ /\ req' = [req EXCEPT ![r] = Finish(@, "error")]
        /\ UNCHANGED orders
  /\ UNCHANGED <<stock, catalog, nreq, stockVer>>
  /\ UNCHANGED shopVars

\* one pass of the stock update loop; after the last one the handler answers 201
CreateReserve(r) ==
  /\ req[r].kind = "create" /\ req[r].pc = "reserve"
  /\ LET item == req[r].items[req[r].i]
         p == item.product
         d == ReserveQty(item)
         last == req[r].i = Len(req[r].items)
     IN \/ /\ stock' = [stock EXCEPT ![p] = @ + d]
           /\ stockVer' = [stockVer EXCEPT ![p] = @ + 1]
           /\ orders' = [orders EXCEPT ![req[r].order].reserved = @ + 1]
           /\ req' = [req EXCEPT ![r] =
                IF last THEN Finish([@ EXCEPT !.delta[p] = @ + d], "created")
                ELSE [@ EXCEPT !.delta[p] = @ + d, !.i = @ + 1]]
        \/ /\ req' = [req EXCEPT ![r] = Finish(@, "error")]
           /\ UNCHANGED <<stock, stockVer, orders>>
  /\ UNCHANGED <<catalog, nreq>>
  /\ UNCHANGED shopVars

\* -------------------------------------------- restoring stock (both routes)
\* fault variant: the decrement of order creation copied into the restore loop
MutRestoreQty(item) == 0 - item.quantity
\* { $inc: { stock: item.quantity } }
RestoreQty(item) == item.quantity

\* one pass of a restore loop over order.items, the order as the handler read it
RestoreStep(r) ==
  LET items == orders[req[r].oid].items
      item == items[req[r].i]
      p == item.product
      d == RestoreQty(item)
      last == req[r].i = Len(items)
  IN \/ /\ stock' = [stock EXCEPT ![p] = @ + d]
        /\ stockVer' = [stockVer EXCEPT ![p] = @ + 1]
        /\ req' = [req EXCEPT ![r] =
             IF last THEN [@ EXCEPT !.delta[p] = @ + d, !.pc = "update"]
             ELSE [@ EXCEPT !.delta[p] = @ + d, !.i = @ + 1]]
     \/ /\ req' = [req EXCEPT ![r] = Finish(@, "error")]
        /\ UNCHANGED <<stock, stockVer>>

\* the order ids a request can name: every order, and one id of no order
OrderIds == 1..(Len(orders) + 1)

\* ------------------------------------------------------------ update status
\* fault variant: the shipped branch without its test of the tracking number
MutShippedData(order, status, now, trackingNumber) ==
  IF status = "shipped"
    THEN [order EXCEPT !.trackingNumber = trackingNumber,
                       !.estimatedDelivery = now + EstimatedDeliveryDelay]
    ELSE order
\* if (status === 'shipped' && trackingNumber)
ShippedData(order, status, now, trackingNumber) ==
  IF status = "shipped" /\ trackingNumber # NoTrackingNumber
    THEN [order EXCEPT !.trackingNumber = trackingNumber,
                       !.estimatedDelivery = now + EstimatedDeliveryDelay]
    ELSE order

\* fault variant: the delivered branch without its payment status
MutStatusUpdateData(order, status, now, trackingNumber) ==
  [ShippedData(order, status, now, trackingNumber)
     EXCEPT !.status = status,
            !.deliveredAt = IF status = "delivered" THEN now ELSE @,
            !.cancels = IF status = "cancelled" THEN @ + 1 ELSE @]
\* updateData, as far as it reaches the modelled fields
StatusUpdateData(order, status, now, trackingNumber) ==
  [ShippedData(order, status, now, trackingNumber)
     EXCEPT !.status = status,
            !.deliveredAt = IF status = "delivered" THEN now ELSE @,
            !.paymentStatus = IF status = "delivered" THEN "paid" ELSE @,
            !.cancels = IF status = "cancelled" THEN @ + 1 ELSE @]

\* fault variant: an order set back to pending has its stock put back as well
MutRestoresStock(status) == status \in {"cancelled", "pending"}
\* if (status === 'cancelled'), the branch that holds the restore loop
RestoresStock(status) == status = "cancelled"

\* Order.findById and the code up to the next store call; the clock is read
\* in the shipped branch and in the delivered branch
StatusFindWith(r, oid, status, trackingNumber) ==
  /\ CanStart(r)
  /\ LET rec == [IdleReq EXCEPT !.kind = "status", !.oid = oid, !.target = status,
                   !.trackingNumber = trackingNumber,
                   !.now = IF \/ status = "delivered"
                              \/ status = "shipped" /\ trackingNumber # NoTrackingNumber
                           THEN Now ELSE 0]
     IN req' = [req EXCEPT ![r] =
          IF oid \notin DOMAIN orders THEN Finish([rec EXCEPT !.seenCase = "missing"], "notfound")
          ELSE IF RestoresStock(status)
            THEN [rec EXCEPT !.seenCase = orders[oid].status, !.pc = "restore", !.i = 1,
                             !.seenPay = orders[oid].paymentStatus]
          ELSE [rec EXCEPT !.seenCase = orders[oid].status, !.pc = "update",
                           !.seenPay = orders[oid].paymentStatus]]
  /\ nreq' = nreq + 1
  /\ UNCHANGED <<stock, catalog, orders, stockVer>>
  /\ UNCHANGED shopVars

\* a request that gives no tracking number
StatusFind(r, oid, status) == StatusFindWith(r, oid, status, NoTrackingNumber)

StatusRestore(r) ==
  /\ req[r].kind = "status" /\ req[r].pc = "restore"
  /\ RestoreStep(r)
  /\ UNCHANGED <<catalog, orders, nreq>>
  /\ UNCHANGED shopVars

\* Order.findByIdAndUpdate(req.params.id, updateData)
StatusUpdate(r) ==
  /\ req[r].kind = "status" /\ req[r].pc = "update"
  /\ \/ /\ orders' = [orders EXCEPT ![req[r].oid] = StatusUpdateData(@, req[r].target, req[r].now, req[r].trackingNumber)]
        /\ req' = [req EXCEPT ![r] = Finish([@ EXCEPT !.updated = TRUE], "ok")]
     \/ /\ req' = [req EXCEPT ![r] = Finish(@, "error")]
        /\ UNCHANGED orders
  /\ UNCHANGED <<stock, catalog, nreq, stockVer>>
  /\ UNCHANGED shopVars

\* ----------------------------------------------------------- update payment
\* fault variant: a payment that also confirms the order
MutPaymentUpdateData(order, paymentStatus) ==
  [order EXCEPT !.paymentStatus = paymentStatus,
                !.status = IF paymentStatus = "paid" THEN "confirmed" ELSE @]
\* the update document { paymentStatus }
PaymentUpdateData(order, paymentStatus) == [order EXCEPT !.paymentStatus = paymentStatus]

\* Order.findByIdAndUpdate(req.params.id, {paymentStatus}), the handler's one
\* store call, and the response
PaymentUpdate(r, oid, paymentStatus) ==
  /\ CanStart(r)
  /\ LET rec == [IdleReq EXCEPT !.kind = "payment", !.oid = oid, !.pay = paymentStatus]
     IN \/ /\ oid \in DOMAIN orders
           /\ orders' = [orders EXCEPT ![oid] = PaymentUpdateData(@, paymentStatus)]
           /\ req' = [req EXCEPT ![r] = Finish([rec EXCEPT !.updated = TRUE], "ok")]
        \/ /\ oid \notin DOMAIN orders
           /\ req' = [req EXCEPT ![r] = Finish(rec, "notfound")]
           /\ UNCHANGED orders
        \/ /\ req' = [req EXCEPT ![r] = Finish(rec, "error")]
           /\ UNCHANGED orders
  /\ nreq' = nreq + 1
  /\ UNCHANGED <<stock, catalog, stockVer>>
  /\ UNCHANGED shopVars

\* ------------------------------------------------------------- cancel order
\* fault variant: the query of a user without its customer filter
MutCancelQuery(order, c) == Role(c) = "admin" \/ order.status = "pending"
\* the query of Order.findOne: a caller who is no admin meets only their own
\* pending orders
CancelQuery(order, c) ==
  Role(c) = "admin" \/ (order.customer = c /\ order.status = "pending")

\* what the query met, for a caller of either role
CancelCase(oid, c) ==
  IF oid \notin DOMAIN orders THEN "missing"
  ELSE IF Role(c) # "admin" /\ orders[oid].customer # c THEN "foreign"
  ELSE orders[oid].status

CancelFind(r, c, oid) ==
  /\ CanStart(r)
  /\ LET rec == [IdleReq EXCEPT !.kind = "cancel", !.caller = c, !.oid = oid,
                   !.target = "cancelled", !.seenCase = CancelCase(oid, c)]
     IN req' = [req EXCEPT ![r] =
          IF oid \notin DOMAIN orders \/ ~CancelQuery(orders[oid], c)
            THEN Finish(rec, "notfound")
          ELSE IF orders[oid].status = "cancelled" THEN Finish(rec, "alreadyCancelled")
          ELSE [rec EXCEPT !.pc = "restore", !.i = 1]]
  /\ nreq' = nreq + 1
  /\ UNCHANGED <<stock, catalog, orders, stockVer>>
  /\ UNCHANGED shopVars

CancelRestore(r) ==
  /\ req[r].kind = "cancel" /\ req[r].pc = "restore"
  /\ RestoreStep(r)
  /\ UNCHANGED <<catalog, orders, nreq>>
  /\ UNCHANGED shopVars

\* Order.findByIdAndUpdate(req.params.id, {status: 'cancelled', ...})
CancelUpdate(r) ==
  /\ req[r].kind = "cancel" /\ req[r].pc = "update"
  /\ \/ /\ orders' = [orders EXCEPT ![req[r].oid] = StatusUpdateData(@, "cancelled", req[r].now, NoTrackingNumber)]
        /\ req' = [req EXCEPT ![r] = Finish([@ EXCEPT !.updated = TRUE], "ok")]
     \/ /\ req' = [req EXCEPT ![r] = Finish(@, "error")]
        /\ UNCHANGED orders
  /\ UNCHANGED <<stock, catalog, nreq, stockVer>>
  /\ UNCHANGED shopVars

\* --------------------------------------------------------- stock adjustment
Max(a, b) == IF a >= b THEN a ELSE b

\* const { stock, operation = 'set' } = req.body
Operation(given) == IF given = NoOperation THEN DefaultOperation ELSE given

\* fault variant: a subtraction that is not held at zero
MutNewStock(current, value, operation) ==
  CASE operation = "add" -> current + value
    [] operation = "subtract" -> current - value
    [] OTHER -> value
\* the switch on operation
NewStock(current, value, operation) ==
  CASE operation = "add" -> current + value
    [] operation = "subtract" -> Max(0, current - value)
    [] OTHER -> value

\* Product.findById and the switch, for a body with the operation given or
\* with none
AdjustFindWith(r, p, v, given) ==
  /\ CanStart(r)
  /\ LET operation == Operation(given)
         rec == [IdleReq EXCEPT !.kind = "adjust", !.prod = p, !.val = v,
                   !.given = given, !.op = operation]
     IN req' = [req EXCEPT ![r] =
          IF catalog[p] = "absent" THEN Finish(rec, "notfound")
          ELSE [rec EXCEPT !.newStock = NewStock(stock[p], v, operation), !.pc = "write"]]
  /\ nreq' = nreq + 1
  /\ UNCHANGED <<stock, catalog, orders, stockVer>>
  /\ UNCHANGED shopVars

\* a request that names its operation
AdjustFind(r, p, v, operation) == AdjustFindWith(r, p, v, operation)

\* Product.findByIdAndUpdate(req.params.id, {stock: newStock})
AdjustWrite(r) ==
  /\ req[r].kind = "adjust" /\ req[r].pc = "write"
  /\ LET p == req[r].prod
     IN \/ /\ stock' = [stock EXCEPT ![p] = req[r].newStock]
           /\ stockVer' = [stockVer EXCEPT ![p] = @ + 1]
           /\ req' = [req EXCEPT ![r] =
                Finish(@, "ok")]
        \/ /\ req' = [req EXCEPT ![r] = Finish(@, "error")]
           /\ UNCHANGED <<stock, stockVer>>
  /\ UNCHANGED <<catalog, orders, nreq>>
  /\ UNCHANGED shopVars

\* ----------------------------------------------------------- product update
\* fault variant: the lines of the orders follow the price of their product
MutProductUpdate(p, v) ==
  /\ catalog[p] # "absent"
  /\ price' = [price EXCEPT ![p] = v]
  /\ orders' = [o \in DOMAIN orders |->
       [orders[o] EXCEPT !.items = [k \in DOMAIN orders[o].items |->
          LET line == orders[o].items[k]
          IN IF line.product = p
               THEN [line EXCEPT !.price = v, !.total = v * line.quantity]
               ELSE line]]]
  /\ UNCHANGED <<stock, catalog, req, nreq, stockVer, carts, cartOp, accounts>>
\* PUT /:id with a price: Product.findById, then Product.findByIdAndUpdate;
\* the request of a product that does not exist is answered 404
ProductUpdate(p, v) ==
  /\ catalog[p] # "absent"
  /\ price' = [price EXCEPT ![p] = v]
  /\ UNCHANGED <<stock, catalog, orders, req, nreq, stockVer, carts, cartOp, accounts>>

\* --------------------------------------------------------------------- cart
\* The methods of the cart schema, each a change of the document followed by
\* this.save().  A cart is changed by one request at a time, so a method runs
\* on the cart as it is stored and its save is one action.

\* items.findIndex(item => item.product.toString() === productId.toString()):
\* the position of the first line of the product, 0 (in the code -1) if none
FindIndex(items, productId) ==
  IF \E k \in DOMAIN items : items[k].product = productId
    THEN CHOOSE k \in DOMAIN items :
           /\ items[k].product = productId
           /\ \A j \in DOMAIN items : items[j].product = productId => k <= j
  ELSE 0

\* fault variant: the item schema without its hook
MutItemPreSave(item) == item
\* cartItemSchema.pre('save')
ItemPreSave(item) == [item EXCEPT !.total = item.price * item.quantity]

\* items.reduce((sum, item) => sum + item.total, 0)
RECURSIVE SumTotal(_)
SumTotal(items) == IF items = <<>> THEN 0 ELSE Head(items).total + SumTotal(Tail(items))

\* items.reduce((sum, item) => sum + item.quantity, 0)
RECURSIVE SumQuantity(_)
SumQuantity(items) == IF items = <<>> THEN 0 ELSE Head(items).quantity + SumQuantity(Tail(items))

\* fault variant: the hook counts the lines
MutCartPreSave(cart) ==
  [cart EXCEPT !.subtotal = SumTotal(cart.items), !.totalItems = Len(cart.items)]
\* cartSchema.pre('save')
CartPreSave(cart) ==
  [cart EXCEPT !.subtotal = SumTotal(cart.items), !.totalItems = SumQuantity(cart.items)]

\* this.save(): the save hooks of the items run before the save hook of the cart
Save(cart) ==
  CartPreSave([cart EXCEPT !.items = [k \in DOMAIN cart.items |-> ItemPreSave(cart.items[k])]])

\* fault variant: every call pushes a line
MutAddItem(cart, productId, quantity, itemPrice) ==
  [cart EXCEPT !.items = Append(@, [product |-> productId, quantity |-> quantity,
                                    price |-> itemPrice, total |-> quantity * itemPrice])]
\* cartSchema.methods.addItem, up to its save
AddItem(cart, productId, quantity, itemPrice) ==
  LET existingItemIndex == FindIndex(cart.items, productId)
  IN IF existingItemIndex # 0
       THEN [cart EXCEPT !.items[existingItemIndex].quantity = @ + quantity,
                         !.items[existingItemIndex].total =
                            (cart.items[existingItemIndex].quantity + quantity) * itemPrice]
     ELSE [cart EXCEPT !.items = Append(@, [product |-> productId, quantity |-> quantity,
                                            price |-> itemPrice, total |-> quantity * itemPrice])]

\* items.splice(itemIndex, 1)
Splice(items, itemIndex) ==
  [k \in 1..(Len(items) - 1) |-> IF k < itemIndex THEN items[k] ELSE items[k + 1]]

\* fault variant: a quantity of 0 is stored in the line
MutUpdateItem(cart, itemIndex, quantity) ==
  IF quantity < 0 THEN [cart EXCEPT !.items = Splice(@, itemIndex)]
  ELSE [cart EXCEPT !.items[itemIndex].quantity = quantity,
                    !.items[itemIndex].total = quantity * cart.items[itemIndex].price]
\* cartSchema.methods.updateItem, the branch itemIndex >= 0 up to its save
UpdateItem(cart, itemIndex, quantity) ==
  IF quantity <= 0 THEN [cart EXCEPT !.items = Splice(@, itemIndex)]
  ELSE [cart EXCEPT !.items[itemIndex].quantity = quantity,
                    !.items[itemIndex].total = quantity * cart.items[itemIndex].price]

\* the lines of a product / of the other products, in their order
RECURSIVE Without(_, _)
Without(items, productId) ==
  IF items = <<>> THEN <<>>
  ELSE IF Head(items).product = productId THEN Without(Tail(items), productId)
  ELSE <<Head(items)>> \o Without(Tail(items), productId)

\* fault variant: the filter drops the first line
MutRemoveItem(cart, productId) ==
  [cart EXCEPT !.items = IF @ = <<>> THEN @ ELSE Tail(@)]
\* cartSchema.methods.removeItem, up to its save
RemoveItem(cart, productId) == [cart EXCEPT !.items = Without(@, productId)]

\* cartSchema.methods.clearCart, up to its save
ClearCart(cart) == [cart EXCEPT !.items = <<>>]

\* Cart.findOne({user}): the _id of the first cart of the user, 0 if none
CartOf(u) ==
  IF \E c \in DOMAIN carts : carts[c].user = u
    THEN CHOOSE c \in DOMAIN carts :
           carts[c].user = u /\ \A d \in DOMAIN carts : carts[d].user = u => c <= d
  ELSE 0

CartOp(op, c, p, q, v, found, result) ==
  [op |-> op, cart |-> c, product |-> p, quantity |-> q, price |-> v,
   found |-> found, result |-> result, tick |-> 1 - cartOp.tick]

orderVars == <<stock, catalog, orders, req, nreq, stockVer>>

\* the save of a cart: the document is stored, or the store fails and the
\* stored cart is as it was
SaveCart(c, doc, op) ==
  \/ /\ carts' = [carts EXCEPT ![c] = Save(doc)]
     /\ cartOp' = [op EXCEPT !.result = "saved"]
  \/ /\ cartOp' = [op EXCEPT !.result = "error"]
     /\ UNCHANGED carts

\* Cart.create({user: req.user.id}), for a user who has no cart
CartCreate(u) ==
  /\ CartOf(u) = 0
  /\ Len(carts) < MaxCarts
  /\ carts' = Append(carts, Save([user |-> u, items |-> <<>>, subtotal |-> 0, totalItems |-> 0]))
  /\ cartOp' = CartOp("create", Len(carts) + 1, 0, 0, 0, FALSE, "saved")
  /\ UNCHANGED <<orderVars, price, accounts>>

\* cart.addItem(productId, quantity, price); the quantity of a line is bounded
CartAddItem(c, p, q, v) ==
  LET found == FindIndex(carts[c].items, p) # 0
  IN /\ found => carts[c].items[FindIndex(carts[c].items, p)].quantity + q <= MaxLineQty
     /\ SaveCart(c, AddItem(carts[c], p, q, v), CartOp("addItem", c, p, q, v, found, "none"))
     /\ UNCHANGED <<orderVars, price, accounts>>

\* cart.updateItem(productId, quantity)
CartUpdateItem(c, p, q) ==
  LET itemIndex == FindIndex(carts[c].items, p)
  IN /\ IF itemIndex # 0
          THEN SaveCart(c, UpdateItem(carts[c], itemIndex, q),
                        CartOp("updateItem", c, p, q, 0, TRUE, "none"))
        ELSE /\ cartOp' = CartOp("updateItem", c, p, q, 0, FALSE, "itemNotFound")
             /\ UNCHANGED carts
     /\ UNCHANGED <<orderVars, price, accounts>>

\* cart.removeItem(productId)
CartRemoveItem(c, p) ==
  /\ SaveCart(c, RemoveItem(carts[c], p),
              CartOp("removeItem", c, p, 0, 0, FindIndex(carts[c].items, p) # 0, "none"))
  /\ UNCHANGED <<orderVars, price, accounts>>

\* cart.clearCart()
CartClear(c) ==
  /\ SaveCart(c, ClearCart(carts[c]), CartOp("clearCart", c, 0, 0, 0, FALSE, "none"))
  /\ UNCHANGED <<orderVars, price, accounts>>

\* POST /from-cart: Cart.findOne, the check of an empty cart, cart.clearCart()
\* and the response.  No statement of the handler creates an order: the
\* order of the response is the variable of the enclosing handler of POST /
\* where the route stands inside it (answer 201), and an unbound name where
\* the route stands on its own (answer 500).
FromCart(u) ==
  LET c == CartOf(u)
  IN /\ IF c = 0 \/ (c # 0 /\ carts[c].items = <<>>)
          THEN /\ cartOp' = CartOp("fromCart", c, 0, 0, 0, c # 0, "cartEmpty")
               /\ UNCHANGED carts
        ELSE \/ /\ carts' = [carts EXCEPT ![c] = Save(ClearCart(@))]
                /\ \E result \in {"created", "error"} :
                     cartOp' = CartOp("fromCart", c, 0, 0, 0, TRUE, result)
             \/ /\ cartOp' = CartOp("fromCart", c, 0, 0, 0, TRUE, "error")
                /\ UNCHANGED carts
     /\ UNCHANGED <<orderVars, price, accounts>>

\* -------------------------------------------------------------- cart routes
\* GET / and POST / of the cart routes as handlers of several store calls.
\* A cart document is held by one request at a time: a handler reads the
\* cart of a user only when no other handler is between its read of that
\* cart and its save.

\* fault variant: a cart collection without the unique index on user
MutDuplicateKey(u) == FALSE
\* user: { unique: true }: the insert of a second cart of a user is refused
DuplicateKey(u) == CartOf(u) # 0

\* the document of Cart.create({user: req.user.id})
NewCart(u) == Save([user |-> u, items |-> <<>>, subtotal |-> 0, totalItems |-> 0])

\* GET /: Cart.findOne({user: req.user.id})
CartGetFind(r, u) ==
  /\ CanStart(r)
  /\ LET rec == [IdleReq EXCEPT !.kind = "cartGet", !.caller = u, !.cart = CartOf(u)]
     IN req' = [req EXCEPT ![r] =
          IF CartOf(u) # 0 THEN Finish(rec, "ok") ELSE [rec EXCEPT !.pc = "create"]]
  /\ nreq' = nreq + 1
  /\ UNCHANGED <<stock, catalog, orders, stockVer>>
  /\ UNCHANGED shopVars

\* POST /: Product.findOne({_id: productId, isActive: true}) and the check
\* of the stock
CartAddFind(r, u, p, q) ==
  /\ CanStart(r)
  /\ LET rec == [IdleReq EXCEPT !.kind = "cartAdd", !.caller = u, !.prod = p,
                   !.quantity = q, !.seenStock = stock, !.seenCatalog = catalog,
                   !.itemPrice = price[p]]
     IN req' = [req EXCEPT ![r] =
          IF catalog[p] # "active" THEN Finish(rec, "notfound")
          ELSE IF stock[p] < q THEN Finish(rec, "insufficient")
          ELSE [rec EXCEPT !.pc = "findCart"]]
  /\ nreq' = nreq + 1
  /\ UNCHANGED <<stock, catalog, orders, stockVer>>
  /\ UNCHANGED shopVars

\* POST /: Cart.findOne({user: req.user.id})
CartAddFindCart(r) ==
  /\ req[r].kind = "cartAdd" /\ req[r].pc = "findCart"
  /\ \A q \in Slots : ~(q # r /\ req[q].pc = "add" /\ req[q].caller = req[r].caller)
  /\ req' = [req EXCEPT ![r] =
       IF CartOf(req[r].caller) # 0
         THEN [@ EXCEPT !.cart = CartOf(req[r].caller), !.pc = "add"]
       ELSE [@ EXCEPT !.pc = "create"]]
  /\ UNCHANGED <<stock, catalog, orders, nreq, stockVer>>
  /\ UNCHANGED shopVars

\* Cart.create({user: req.user.id}) of either route
CartRouteCreate(r) ==
  /\ req[r].kind \in {"cartGet", "cartAdd"} /\ req[r].pc = "create"
  /\ \/ /\ DuplicateKey(req[r].caller)
        /\ req' = [req EXCEPT ![r] = Finish(@, "duplicateKey")]
        /\ UNCHANGED carts
     \/ /\ ~DuplicateKey(req[r].caller)
        /\ carts' = Append(carts, NewCart(req[r].caller))
        /\ req' = [req EXCEPT ![r] =
             IF req[r].kind = "cartGet" THEN Finish([@ EXCEPT !.cart = Len(carts) + 1], "ok")
             ELSE [@ EXCEPT !.cart = Len(carts) + 1, !.pc = "add"]]
     \/ /\ req' = [req EXCEPT ![r] = Finish(@, "error")]
        /\ UNCHANGED carts
  /\ UNCHANGED <<stock, catalog, orders, nreq, stockVer, price, cartOp, accounts>>

\* cart.addItem(productId, quantity, product.price), Cart.findById and the
\* response
CartAddSave(r) ==
  /\ req[r].kind = "cartAdd" /\ req[r].pc = "add"
  /\ LET c == req[r].cart
     IN \/ /\ carts' = [carts EXCEPT ![c] =
                Save(AddItem(@, req[r].prod, req[r].quantity, req[r].itemPrice))]
           /\ req' = [req EXCEPT ![r] = Finish([@ EXCEPT !.updated = TRUE], "ok")]
        \/ /\ req' = [req EXCEPT ![r] = Finish(@, "error")]
           /\ UNCHANGED carts
  /\ UNCHANGED <<stock, catalog, orders, nreq, stockVer, price, cartOp, accounts>>

\* -------------------------------------------------------------- user routes
\* PUT /:id and DELETE /:id of the user routes.  req.user is the account of
\* the caller as the authentication read it when the request arrived.

\* fault variant: role and isActive are taken from the body of any caller
MutProfileUpdateData(callerRole, body) ==
  [firstName |-> body.firstName, role |-> body.role, isActive |-> body.isActive]
\* updateData: only an admin's request carries role and isActive
ProfileUpdateData(callerRole, body) ==
  [firstName |-> body.firstName,
   role |-> IF callerRole = "admin" THEN body.role ELSE NoValue,
   isActive |-> IF callerRole = "admin" THEN body.isActive ELSE NoValue]

\* the document after User.findByIdAndUpdate(id, updateData)
ApplyUpdate(account, updateData) ==
  [account EXCEPT !.firstName = updateData.firstName,
                  !.role = IF updateData.role # NoValue THEN updateData.role ELSE @,
                  !.isActive = IF updateData.isActive # NoValue
                                 THEN updateData.isActive = "true" ELSE @]

\* PUT /:id up to User.findByIdAndUpdate: the test of the caller, User.findById
ProfileFind(r, c, id, body) ==
  /\ CanStart(r)
  /\ accounts[c].exists
  /\ LET rec == [IdleReq EXCEPT !.kind = "profile", !.caller = c, !.account = id,
                   !.callerRole = accounts[c].role, !.body = body]
     IN req' = [req EXCEPT ![r] =
          IF c # id /\ accounts[c].role # "admin" THEN Finish(rec, "forbidden")
          ELSE IF ~accounts[id].exists THEN Finish(rec, "notfound")
          ELSE [rec EXCEPT !.pc = "update"]]
  /\ nreq' = nreq + 1
  /\ UNCHANGED <<stock, catalog, orders, stockVer>>
  /\ UNCHANGED shopVars

\* User.findByIdAndUpdate(req.params.id, updateData) and the response; the
\* update of an account deleted meanwhile changes nothing
ProfileUpdate(r) ==
  /\ req[r].kind = "profile" /\ req[r].pc = "update"
  /\ \/ /\ accounts' = [accounts EXCEPT ![req[r].account] =
                IF @.exists THEN ApplyUpdate(@, ProfileUpdateData(req[r].callerRole, req[r].body))
                ELSE @]
        /\ req' = [req EXCEPT ![r] = Finish([@ EXCEPT !.updated = TRUE], "ok")]
     \/ /\ req' = [req EXCEPT ![r] = Finish(@, "error")]
        /\ UNCHANGED accounts
  /\ UNCHANGED <<stock, catalog, orders, nreq, stockVer, price, carts, cartOp>>

\* DELETE /:id up to User.findByIdAndDelete: the admin middleware,
\* User.findById, the test of the caller's own account
DeleteFind(r, c, id) ==
  /\ CanStart(r)
  /\ accounts[c].exists
  /\ LET rec == [IdleReq EXCEPT !.kind = "delete", !.caller = c, !.account = id,
                   !.callerRole = accounts[c].role]
     IN req' = [req EXCEPT ![r] =
          IF accounts[c].role # "admin" THEN Finish(rec, "forbidden")
          ELSE IF ~accounts[id].exists THEN Finish(rec, "notfound")
          ELSE IF c = id THEN Finish(rec, "ownAccount")
          ELSE [rec EXCEPT !.pc = "delete"]]
  /\ nreq' = nreq + 1
  /\ UNCHANGED <<stock, catalog, orders, stockVer>>
  /\ UNCHANGED shopVars

\* User.findByIdAndDelete(req.params.id) and the response
DeleteWrite(r) ==
  /\ req[r].kind = "delete" /\ req[r].pc = "delete"
  /\ \/ /\ accounts' = [accounts EXCEPT ![req[r].account].exists = FALSE]
        /\ req' = [req EXCEPT ![r] = Finish([@ EXCEPT !.updated = TRUE], "ok")]
     \/ /\ req' = [req EXCEPT ![r] = Finish(@, "error")]
        /\ UNCHANGED accounts
  /\ UNCHANGED <<stock, catalog, orders, nreq, stockVer, price, carts, cartOp>>

\* ----------------------------------------------------------- specification
Next ==
  \/ \E r \in Slots, u \in Users, items \in ItemLists : CreateFind(r, u, items)
  \/ \E r \in Slots : CreateOrder(r)
  \/ \E r \in Slots : CreateReserve(r)
  \/ \E r \in Slots, oid \in OrderIds, status \in OrderStatuses : StatusFind(r, oid, status)
  \/ \E r \in Slots : StatusRestore(r)
  \/ \E r \in Slots : StatusUpdate(r)
  \/ \E r \in Slots, c \in Callers, oid \in OrderIds : CancelFind(r, c, oid)
  \/ \E r \in Slots : CancelRestore(r)
  \/ \E r \in Slots : CancelUpdate(r)
  \/ \E r \in Slots, p \in Products, v \in 0..MaxStock, operation \in StockOperations :
       AdjustFind(r, p, v, operation)
  \/ \E r \in Slots : AdjustWrite(r)
  \/ \E r \in Slots : Respond(r)

Spec == Init /\ [][Next]_vars

\* The order routes with the amounts of an order: requests that give a tax
\* rate and a shipping cost, payment updates and price changes, the requests
\* served one at a time.
TotalsSlots == {1}

TotalsNext ==
  \/ \E r \in TotalsSlots, u \in Users, items \in ItemLists, taxRate \in TaxRates,
        shippingCost \in ShippingCosts :
       /\ Len(orders) < MaxTotalsOrders
       /\ CreateFindWith(r, u, items, taxRate, shippingCost)
  \/ \E r \in TotalsSlots : CreateOrder(r)
  \/ \E r \in TotalsSlots : CreateReserve(r)
  \/ \E r \in TotalsSlots, oid \in OrderIds, status \in OrderStatuses,
        trackingNumber \in TrackingNumbers \cup {NoTrackingNumber} :
       StatusFindWith(r, oid, status, trackingNumber)
  \/ \E r \in TotalsSlots : StatusRestore(r)
  \/ \E r \in TotalsSlots : StatusUpdate(r)
  \/ \E r \in TotalsSlots, oid \in OrderIds, paymentStatus \in PaymentStatuses :
       PaymentUpdate(r, oid, paymentStatus)
  \/ \E r \in TotalsSlots, c \in Callers, oid \in OrderIds : CancelFind(r, c, oid)
  \/ \E r \in TotalsSlots : CancelRestore(r)
  \/ \E r \in TotalsSlots : CancelUpdate(r)
  \/ \E p \in Products, v \in Prices : ProductUpdate(p, v)
  \/ \E r \in TotalsSlots : Respond(r)

SpecTotals == Init /\ [][TotalsNext]_vars

\* The stock adjustment on its own: requests served one at a time, with or
\* without an operation in the body, and with values beyond the stock.
AdjustSlots == {1}

StockNext ==
  \/ \E r \in AdjustSlots, p \in Products, v \in 0..MaxQty,
        given \in StockOperations \cup {NoOperation} :
       AdjustFindWith(r, p, v, given)
  \/ \E r \in AdjustSlots : AdjustWrite(r)
  \/ \E r \in AdjustSlots : Respond(r)

SpecStock == Init /\ [][StockNext]_vars

\* The cart: its methods, called with arguments of the bounded sets, and
\* the order built from it.
CartNext ==
  \/ \E u \in Users : CartCreate(u)
  \/ \E c \in DOMAIN carts, p \in Products, q \in 1..MaxCartQty, v \in Prices :
       CartAddItem(c, p, q, v)
  \/ \E c \in DOMAIN carts, p \in Products, q \in (0 - 1)..MaxCartQty : CartUpdateItem(c, p, q)
  \/ \E c \in DOMAIN carts, p \in Products : CartRemoveItem(c, p)
  \/ \E c \in DOMAIN carts : CartClear(c)
  \/ \E u \in Users : FromCart(u)

SpecCart == Init /\ [][CartNext]_vars

\* The cart routes under concurrency.
CartRoutesNext ==
  \/ \E r \in Slots, u \in Users : CartGetFind(r, u)
  \/ \E r \in Slots, u \in Users, p \in Products, q \in 1..MaxQty : CartAddFind(r, u, p, q)
  \/ \E r \in Slots : CartAddFindCart(r)
  \/ \E r \in Slots : CartRouteCreate(r)
  \/ \E r \in Slots : CartAddSave(r)
  \/ \E r \in Slots : Respond(r)

SpecCartRoutes == Init /\ [][CartRoutesNext]_vars

\* The user routes under concurrency.
UsersNext ==
  \/ \E r \in Slots, c \in Callers, id \in Callers, body \in ProfileBodies :
       ProfileFind(r, c, id, body)
  \/ \E r \in Slots : ProfileUpdate(r)
  \/ \E r \in Slots, c \in Callers, id \in Callers : DeleteFind(r, c, id)
  \/ \E r \in Slots : DeleteWrite(r)
  \/ \E r \in Slots : Respond(r)

SpecUsers == Init /\ [][UsersNext]_vars

\* ------------------------------------------------------------------ claims
DoneCreates == {r \in Slots : req[r].kind = "create" /\ req[r].pc = "done"}
ItemProducts(items) == {items[k].product : k \in DOMAIN items}
Distinct(items) == \A j, k \in DOMAIN items : j # k => items[j].product # items[k].product

\* C1: no two order creations that read the same stock of a product, a stock
\* that covers each of the two quantities but not both, both end with a
\* created order.
C1_AtMostOneCreated ==
  \A r1, r2 \in DoneCreates :
    (r1 # r2 /\ req[r1].order # 0 /\ req[r2].order # 0) =>
      ~ \E k1 \in DOMAIN req[r1].items, k2 \in DOMAIN req[r2].items :
          LET p == req[r1].items[k1].product
          IN /\ req[r2].items[k2].product = p
             /\ req[r1].seenVer[p] = req[r2].seenVer[p]
             /\ req[r1].items[k1].quantity + req[r2].items[k2].quantity > req[r1].seenStock[p]

\* C2: the stock of every product is a non-negative integer in every
\* reachable state.
C2_StockNonNegative == \A p \in Products : stock[p] \in Nat

\* C3: when an order creation has ended, either its order exists and the
\* request has decremented the stock of each item by the item's quantity, or
\* no order exists and the request has changed no stock.
C3_OrderIffReserved ==
  \A r \in DoneCreates :
    \/ /\ req[r].order # 0
       /\ \A k \in DOMAIN req[r].items :
            req[r].delta[req[r].items[k].product] = 0 - req[r].items[k].quantity
    \/ /\ req[r].order = 0
       /\ req[r].delta = ZeroDelta

\* an item of the request asks for more than the stock the request read
Short(r, k) == req[r].seenStock[req[r].items[k].product] < req[r].items[k].quantity

C5_UnavailableAbortsAll ==
  \A r \in Slots :
    (/\ req[r].kind = "create"
     /\ \E k \in DOMAIN req[r].items : req[r].seenCatalog[req[r].items[k].product] # "active") =>
      /\ req[r].pc = "done"
      /\ req[r].resp = "unavailable"
      /\ req[r].order = 0
      /\ req[r].delta = ZeroDelta

\* a request with one item active and in stock and one item unavailable was refused
C5_Witness ==
  \E r \in DoneCreates :
    /\ Len(req[r].items) = 2
    /\ \E j, k \in DOMAIN req[r].items :
         /\ req[r].seenCatalog[req[r].items[j].product] = "active" /\ ~Short(r, j)
         /\ req[r].seenCatalog[req[r].items[k].product] # "active"
    /\ req[r].resp = "unavailable"

\* the order was created in full, was set to cancelled once, and the stock of
\* each of its products was written twice since the creation read it: by the
\* creation and by the cancellation
RoundTrip(o) ==
  /\ orders[o].status = "cancelled"
  /\ orders[o].cancels = 1
  /\ orders[o].reserved = Len(orders[o].items)
  /\ \A p \in ItemProducts(orders[o].items) : stockVer[p] = orders[o].seenVer[p] + 2

\* C6: after an order was created and then cancelled once, by either route,
\* with no other write to the stock of its products, each of its products
\* has the stock it had before the order was created.
C6_ReserveCancelRoundTrip ==
  \A o \in DOMAIN orders :
    RoundTrip(o) =>
      \A p \in ItemProducts(orders[o].items) : stock[p] = orders[o].seenStock[p]

\* a cancellation of either route has just ended such a round trip
C6_Witness ==
  \E r \in Slots :
    /\ req[r].kind \in {"cancel", "status"} /\ req[r].pc = "done" /\ req[r].resp = "ok"
    /\ req[r].oid \in DOMAIN orders
    /\ RoundTrip(req[r].oid)

\* C7: once the status of an order is delivered or cancelled, no step changes it.
C7_TerminalStatesStay ==
  [][\A o \in DOMAIN orders :
       orders[o].status \in {"delivered", "cancelled"} => orders'[o].status = orders[o].status]_vars

\* the edges of the order lifecycle
LifecycleEdges ==
  {<<"pending", "confirmed">>, <<"confirmed", "processing">>,
   <<"processing", "shipped">>, <<"shipped", "delivered">>}
  \cup {<<s, "cancelled">> : s \in {"pending", "confirmed", "processing", "shipped"}}

\* C8: every change that an update-status request makes to the status of an
\* order follows an edge of the lifecycle.
C8_StatusFollowsLifecycle ==
  [][\A r \in Slots :
       (/\ req[r].kind = "status" /\ req[r].pc = "update"
        /\ orders'[req[r].oid].status # orders[req[r].oid].status) =>
         <<orders[req[r].oid].status, orders'[req[r].oid].status>> \in LifecycleEdges]_vars

\* C9: a request of an admin to cancel an order that is already cancelled, by
\* either route, changes no stock and no order and ends with AlreadyCancelled.
C9_CancelledStaysCancelled ==
  \A r \in Slots :
    (/\ \/ req[r].kind = "cancel" /\ Role(req[r].caller) = "admin"
        \/ req[r].kind = "status" /\ req[r].target = "cancelled"
     /\ req[r].seenCase = "cancelled") =>
      /\ req[r].delta = ZeroDelta
      /\ ~req[r].updated
      /\ req[r].pc = "done" => req[r].resp = "alreadyCancelled"

\* what a cancellation by a caller of role user must not get through: no such
\* order, the order of another user, the caller's own order that is not pending
UserRejectCases == {"missing", "foreign"} \cup (OrderStatuses \ {"pending"})

\* C10: a cancel-order request of a caller of role user ends with the one
\* rejection NotFound in each of the three cases, and changes no order and
\* no stock.
C10_UserCancelUniformRejection ==
  \A r \in Slots :
    (req[r].kind = "cancel" /\ Role(req[r].caller) = "user"
       /\ req[r].seenCase \in UserRejectCases) =>
      /\ req[r].pc = "done"
      /\ req[r].resp = "notfound"
      /\ req[r].delta = ZeroDelta
      /\ ~req[r].updated

\* a user was refused the cancellation of another user's pending order
C10_Witness ==
  \E r \in Slots :
    /\ req[r].kind = "cancel" /\ Role(req[r].caller) = "user"
    /\ req[r].seenCase = "foreign"
    /\ req[r].oid \in DOMAIN orders /\ orders[req[r].oid].status = "pending"
    /\ req[r].resp = "notfound"

\* C11: every write that a cancel-order request of a caller of role user
\* makes, to the stock of a product or to the order, is made while the status
\* of the order is pending.
C11_UserCancelOnlyPending ==
  [][\A r \in Slots :
       (/\ req[r].kind = "cancel" /\ Role(req[r].caller) = "user"
        /\ req[r].pc \in {"restore", "update"}
        /\ req'[r] # req[r]
        /\ stock' # stock \/ orders' # orders) =>
         orders[req[r].oid].status = "pending"]_vars

\* the quantity a request orders of a product
RECURSIVE Ordered(_, _)
Ordered(items, p) ==
  IF items = <<>> THEN 0
  ELSE (IF Head(items).product = p THEN Head(items).quantity ELSE 0) + Ordered(Tail(items), p)

\* no request but r has written the stock of p since r read it
Undisturbed(r, p) ==
  stockVer[p] = req[r].seenVer[p] + (IF req[r].delta[p] # 0 THEN 1 ELSE 0)

\* C12: when an order creation has ended with a created order, the stock of
\* each product that no other request has written since the creation read it
\* is the stock read less the quantity ordered of it (nothing for a product
\* the request does not order); when it has ended with InsufficientStock, the
\* request has changed no stock.
C12_ReserveExactly ==
  \A r \in DoneCreates :
    /\ req[r].resp = "created" =>
         \A p \in Products :
           /\ req[r].delta[p] = 0 - Ordered(req[r].items, p)
           /\ Undisturbed(r, p) => stock[p] = req[r].seenStock[p] - Ordered(req[r].items, p)
    /\ req[r].resp = "insufficient" =>
         /\ req[r].delta = ZeroDelta
         /\ \A p \in Products : Undisturbed(r, p) => stock[p] = req[r].seenStock[p]

\* an order of two units of one product was created undisturbed, the other
\* product left alone
C12_Witness ==
  \E r \in DoneCreates :
    /\ req[r].resp = "created"
    /\ \A p \in Products : Undisturbed(r, p)
    /\ \E p \in Products : Ordered(req[r].items, p) = MaxQty
    /\ \E p \in Products : Ordered(req[r].items, p) = 0

\* the sum over the lines of price x quantity
RECURSIVE LineSum(_)
LineSum(lines) ==
  IF lines = <<>> THEN 0
  ELSE Head(lines).price * Head(lines).quantity + LineSum(Tail(lines))

\* C13: for every order in every reachable state, total amount = subtotal +
\* tax amount + shipping cost, tax amount = subtotal x the tax rate of the
\* creating request (in percent), and subtotal = the sum over the items of
\* price x quantity.
C13_TotalsAddUp ==
  \A o \in DOMAIN orders :
    /\ orders[o].totalAmount = orders[o].subtotal + orders[o].taxAmount + orders[o].shippingCost
    /\ 100 * orders[o].taxAmount = orders[o].subtotal * orders[o].taxRate
    /\ orders[o].subtotal = LineSum(orders[o].items)

\* an order of two items with a tax and a shipping cost, after a payment
\* update and a status transition
C13_Witness ==
  \E o \in DOMAIN orders :
    /\ Len(orders[o].items) = 2
    /\ orders[o].taxAmount > 0 /\ orders[o].shippingCost > 0
    /\ orders[o].paymentStatus = "refunded"
    /\ orders[o].status = "cancelled"

\* C20: the write of an update-status request to delivered sets the status
\* of the order to delivered, its delivered timestamp to the time of the
\* request and its payment status to paid.
C20_DeliveredSetsPaid ==
  [][\A r \in Slots :
       (/\ req[r].kind = "status" /\ req[r].target = "delivered"
        /\ req[r].pc = "update" /\ req'[r].resp = "ok") =>
         /\ orders'[req[r].oid].status = "delivered"
         /\ orders'[req[r].oid].paymentStatus = "paid"
         /\ orders'[req[r].oid].deliveredAt = req[r].now
         /\ req[r].now \in 1..MaxRequests]_vars

\* an order whose payment was refunded has been set to delivered
C20_Witness ==
  \E r \in Slots :
    /\ req[r].kind = "status" /\ req[r].target = "delivered"
    /\ req[r].pc = "done" /\ req[r].resp = "ok"
    /\ req[r].seenPay = "refunded"
    /\ orders[req[r].oid].paymentStatus = "paid"
    /\ orders[req[r].oid].deliveredAt > 0

\* C21: the write of an update-status request to shipped that gives a
\* tracking number stores that number and sets the estimated delivery to
\* three days after the time of the request; the write of any other
\* update-status request leaves both fields of the order as they were.
C21_ShippedTracking ==
  [][\A r \in Slots :
       (/\ req[r].kind = "status" /\ req[r].pc = "update" /\ req'[r].resp = "ok") =>
         LET o == req[r].oid
         IN IF req[r].target = "shipped" /\ req[r].trackingNumber \in TrackingNumbers
              THEN /\ orders'[o].trackingNumber = req[r].trackingNumber
                   /\ orders'[o].estimatedDelivery = req[r].now + 3
                   /\ req[r].now \in 1..MaxRequests
              ELSE /\ orders'[o].trackingNumber = orders[o].trackingNumber
                   /\ orders'[o].estimatedDelivery = orders[o].estimatedDelivery]_vars

\* an order shipped with one tracking number has been set to another status
\* by a request that gave another tracking number
C21_Witness ==
  \E r \in Slots :
    /\ req[r].kind = "status" /\ req[r].pc = "done" /\ req[r].resp = "ok"
    /\ req[r].target # "shipped"
    /\ req[r].trackingNumber = "TN2"
    /\ orders[req[r].oid].trackingNumber = "TN1"
    /\ orders[req[r].oid].estimatedDelivery > 3

\* C22: an update-payment-status request that names an order is never
\* refused, whatever the payment status it gives and whatever the status of
\* the order; it changes the payment status of that order and nothing else:
\* every other field of the order, every other order and the stock of every
\* product stay as they were.
C22_PaymentOnly ==
  [][\A r \in Slots :
       (req[r].pc = "idle" /\ req'[r].kind = "payment" /\ req'[r].oid \in DOMAIN orders) =>
         /\ req'[r].resp \in {"ok", "error"}
         /\ stock' = stock
         /\ IF req'[r].resp = "ok"
              THEN orders' = [orders EXCEPT ![req'[r].oid].paymentStatus = req'[r].pay]
              ELSE orders' = orders]_vars

\* the payment of a delivered order has been set to refunded
C22_Witness ==
  \E r \in Slots :
    /\ req[r].kind = "payment" /\ req[r].pc = "done" /\ req[r].resp = "ok"
    /\ req[r].pay = "refunded"
    /\ orders[req[r].oid].status = "delivered"
    /\ orders[req[r].oid].paymentStatus = "refunded"

\* C23: no step changes the items of an order (product, quantity, price and
\* total of each line) or its subtotal: they stay as the creating request
\* wrote them through every price update, status update, cancellation and
\* payment update.
C23_ItemsFixed ==
  [][\A o \in DOMAIN orders :
       /\ orders'[o].items = orders[o].items
       /\ orders'[o].subtotal = orders[o].subtotal]_vars

\* a cancelled and refunded order with a line whose price is no longer the
\* price of its product
C23_Witness ==
  \E o \in DOMAIN orders :
    /\ orders[o].status = "cancelled" /\ orders[o].paymentStatus = "refunded"
    /\ \E k \in DOMAIN orders[o].items :
         /\ orders[o].items[k].price # price[orders[o].items[k].product]
         /\ orders[o].items[k].total = orders[o].items[k].price * orders[o].items[k].quantity
    /\ orders[o].subtotal = LineSum(orders[o].items)

\* C24: the write of a stock adjustment that no other request interferes
\* with leaves the stock of the product at v for mode set, at s + v for mode
\* add and at s - v, or at 0 where v exceeds s, for mode subtract, where s is
\* the stock before and v the value given; a body without a mode counts as
\* mode set.  The request of a product that exists is refused in no mode.
C24_AdjustResult ==
  [][\A r \in Slots :
       /\ (req[r].kind = "adjust" /\ req[r].pc = "write" /\ req'[r].resp = "ok") =>
            LET s == stock[req[r].prod]
                v == req[r].val
            IN stock'[req[r].prod] =
                 CASE req[r].given \in {"set", "undefined"} -> v
                   [] req[r].given = "add" -> s + v
                   [] req[r].given = "subtract" -> IF v > s THEN 0 ELSE s - v
       /\ (req[r].pc = "idle" /\ req'[r].kind = "adjust" /\ catalog[req'[r].prod] # "absent") =>
            req'[r].pc = "write"]_vars

\* the first request has taken more than the stock from a product, and the
\* stock is 0
C24_Witness ==
  \E r \in Slots :
    /\ req[r].kind = "adjust" /\ req[r].pc = "done" /\ req[r].resp = "ok"
    /\ req[r].given = "subtract" /\ req[r].val > MaxStock
    /\ nreq = 1
    /\ stock[req[r].prod] = 0

\* C25: where a stock adjustment in mode add or subtract and an order
\* creation are the only two requests, no update is lost: the write of the
\* adjustment leaves the stock at the result of its operation on the stock
\* just before the write, so that the stock after both requests is the
\* result of the two in one order or the other.
C25_NoLostUpdate ==
  [][\A r, q \in Slots :
       (/\ req[r].kind = "adjust" /\ req[r].pc = "write" /\ req'[r].resp = "ok"
        /\ req[r].op \in {"add", "subtract"}
        /\ req[q].kind = "create" /\ nreq = 2) =>
         LET s == stock[req[r].prod]
             v == req[r].val
         IN stock'[req[r].prod] =
              IF req[r].op = "add" THEN s + v
              ELSE IF v > s THEN 0 ELSE s - v]_vars

\* the quantity of a product held by the orders 1..n that are not cancelled
RECURSIVE HeldUpTo(_, _)
HeldUpTo(n, p) ==
  IF n = 0 THEN 0
  ELSE (IF orders[n].status # "cancelled" THEN Ordered(orders[n].items, p) ELSE 0)
       + HeldUpTo(n - 1, p)

\* every order has had the stock of each of its items reserved
AllReserved == \A o \in DOMAIN orders : orders[o].reserved = Len(orders[o].items)

\* C27: the stock of an order whose items were all reserved is put back at
\* most once: the quantity that the completed cancellations of the order
\* (by either route) have put back, for each product, is at most the
\* quantity the order reserved of it.
C27_RestoredAtMostOnce ==
  \A o \in DOMAIN orders : \A p \in Products :
    orders[o].reserved = Len(orders[o].items) =>
      orders[o].cancels * Ordered(orders[o].items, p) <= Ordered(orders[o].items, p)

\* C28: in every state with no request in progress (no stock adjustment
\* having been made, and the items of every order having been reserved), the
\* stock of each product plus the quantity of it held by the orders that are
\* not cancelled is the stock the product started with.
C28_StockConserved ==
  ((\A r \in Slots : req[r].pc = "idle") /\ AllReserved) =>
    \A p \in Products : stock[p] + HeldUpTo(Len(orders), p) = MaxStock

\* C29: an order creation whose items name a product twice ends with the
\* validation error "not available", creates no order and changes no stock;
\* and no order holds two lines of one product.
C29_DuplicateRefused ==
  /\ \A r \in Slots :
       (req[r].kind = "create" /\ ~Distinct(req[r].items)) =>
         /\ req[r].pc = "done"
         /\ req[r].resp = "unavailable"
         /\ req[r].order = 0
         /\ req[r].delta = ZeroDelta
  /\ \A o \in DOMAIN orders : Distinct(orders[o].items)

\* a request that named twice a product that is on sale and in stock for
\* each of the two quantities was refused
C29_Witness ==
  \E r \in DoneCreates :
    /\ Len(req[r].items) = 2
    /\ req[r].items[1].product = req[r].items[2].product
    /\ req[r].seenCatalog[req[r].items[1].product] = "active"
    /\ ~Short(r, 1) /\ ~Short(r, 2)
    /\ req[r].resp = "unavailable"

\* C26: each user has at most one cart, also while and after two requests of
\* the user that both found no cart call Cart.create.
C26_OneCartPerUser ==
  \A u \in Users : Cardinality({c \in DOMAIN carts : carts[c].user = u}) <= 1

\* two requests of one user found no cart: the create of one gave the cart,
\* the create of the other was refused
C26_Witness ==
  \E r, q \in Slots :
    /\ r # q /\ req[r].caller = req[q].caller
    /\ req[r].kind \in {"cartGet", "cartAdd"} /\ req[q].kind \in {"cartGet", "cartAdd"}
    /\ req[r].cart # 0 /\ req[r].pc \in {"add", "done"} /\ req[r].resp \in {"none", "ok"}
    /\ req[q].pc = "done" /\ req[q].resp = "duplicateKey"
    /\ nreq = 2
    /\ Cardinality({c \in DOMAIN carts : carts[c].user = req[r].caller}) = 1

\* C30: when an add-to-cart request has ended with success, the quantity of
\* the line of its product in the cart of its user is at most the stock of
\* the product that the request read.
C30_CartWithinStock ==
  \A r \in Slots :
    (req[r].kind = "cartAdd" /\ req[r].pc = "done" /\ req[r].resp = "ok") =>
      LET items == carts[req[r].cart].items
          k == FindIndex(items, req[r].prod)
      IN k # 0 /\ items[k].quantity <= req[r].seenStock[req[r].prod]

\* C31: every step of an update-status request whose target is not
\* cancelled, from its receipt to its response, leaves the stock of every
\* product as it was, whatever the status of the order it read, cancelled
\* included; the request never enters the restore loop.
C31_OtherTargetsKeepStock ==
  [][\A r \in Slots :
       (/\ req'[r] # req[r]
        /\ \/ req[r].kind = "status" /\ req[r].target # "cancelled"
           \/ req'[r].kind = "status" /\ req'[r].target # "cancelled") =>
         /\ stock' = stock
         /\ req'[r].pc # "restore"]_vars

\* a cancelled order has been set back to pending, and the request wrote no
\* stock
C31_Witness ==
  \E r \in Slots :
    /\ req[r].kind = "status" /\ req[r].pc = "done" /\ req[r].resp = "ok"
    /\ req[r].target = "pending" /\ req[r].seenCase = "cancelled"
    /\ orders[req[r].oid].status = "pending"
    /\ req[r].delta = ZeroDelta

\* C32: every step of a profile-update request whose caller has the role
\* user leaves the role, the active flag and the existence of every account
\* as they were and changes no account but the caller's own; such a request
\* for another account ends as forbidden at once.  A delete request of an
\* admin for their own account ends as refused at once, and the step
\* changes no account.
C32_UserProfileBoundary ==
  [][\A r \in Slots :
       /\ (/\ req'[r] # req[r]
           /\ \/ req[r].kind = "profile" /\ req[r].callerRole = "user"
              \/ req'[r].kind = "profile" /\ req'[r].callerRole = "user") =>
            /\ \A a \in Callers :
                 /\ accounts'[a].role = accounts[a].role
                 /\ accounts'[a].isActive = accounts[a].isActive
                 /\ accounts'[a].exists = accounts[a].exists
                 /\ (req[r].kind = "profile" /\ a # req[r].caller) => accounts'[a] = accounts[a]
            /\ (req[r].pc = "idle" /\ req'[r].account # req'[r].caller) =>
                 (req'[r].pc = "done" /\ req'[r].resp = "forbidden" /\ accounts' = accounts)
       /\ (/\ req[r].pc = "idle" /\ req'[r].kind = "delete"
           /\ req'[r].callerRole = "admin" /\ req'[r].account = req'[r].caller) =>
            /\ req'[r].pc = "done" /\ req'[r].resp = "ownAccount"
            /\ accounts' = accounts]_vars

\* a user has asked for the role admin and for an inactive account in the
\* update of their own profile: the first name is written, role and active
\* flag are as before
C32_Witness ==
  \E r \in Slots :
    /\ req[r].kind = "profile" /\ req[r].pc = "done" /\ req[r].resp = "ok"
    /\ req[r].callerRole = "user" /\ req[r].account = req[r].caller
    /\ req[r].body.role = "admin" /\ req[r].body.isActive = "false"
    /\ accounts[req[r].caller].firstName = req[r].body.firstName
    /\ accounts[req[r].caller].role = "user"
    /\ accounts[req[r].caller].isActive

\* a step of the named cart operation
CartStep(op) == cartOp' # cartOp /\ cartOp'.op = op

\* the order holds the lines of the cart: the same products and quantities
HoldsItems(order, cartItems) ==
  /\ Len(order.items) = Len(cartItems)
  /\ \A k \in DOMAIN cartItems :
       /\ order.items[k].product = cartItems[k].product
       /\ order.items[k].quantity = cartItems[k].quantity

C17_LineTotal ==
  \A c \in DOMAIN carts :
    \A k \in DOMAIN carts[c].items :
      carts[c].items[k].total = carts[c].items[k].quantity * carts[c].items[k].price

\* a product in the cart was added again at another price than its line holds
C17_Witness ==
  /\ cartOp.op = "addItem" /\ cartOp.found /\ cartOp.result = "saved"
  /\ \E k \in DOMAIN carts[cartOp.cart].items :
       /\ carts[cartOp.cart].items[k].product = cartOp.product
       /\ carts[cartOp.cart].items[k].price # cartOp.price

\* C18: an updateItem of a product in the cart, once saved, has removed the
\* line of the product when the quantity is <= 0 and has otherwise set the
\* quantity of the line and its total (quantity x the price of the line),
\* the other lines unchanged; an updateItem of a product not in the cart
\* fails with ItemNotFound and leaves the cart unchanged.
C18_UpdateItem ==
  [][CartStep("updateItem") =>
       LET c == cartOp'.cart
           p == cartOp'.product
           q == cartOp'.quantity
           before == carts[c].items
           after == carts'[c].items
       IN IF \E k \in DOMAIN before : before[k].product = p
            THEN /\ cartOp'.result \in {"saved", "error"}
                 /\ cartOp'.result = "error" => carts' = carts
                 /\ cartOp'.result = "saved" =>
                      IF q <= 0
                        THEN after = SelectSeq(before, LAMBDA l : l.product # p)
                      ELSE /\ Len(after) = Len(before)
                           /\ \A k \in DOMAIN before :
                                IF before[k].product = p
                                  THEN after[k] = [before[k] EXCEPT !.quantity = q,
                                                                    !.total = q * before[k].price]
                                ELSE after[k] = before[k]
          ELSE /\ cartOp'.result = "itemNotFound"
               /\ carts' = carts]_vars

\* an updateItem of a product that is not in a cart with a line has failed
C18_Witness ==
  /\ cartOp.op = "updateItem" /\ ~cartOp.found /\ cartOp.result = "itemNotFound"
  /\ cartOp.quantity > 0
  /\ carts[cartOp.cart].items # <<>>

\* C19: a removeItem, once saved, has removed the line of the product and
\* left the other lines unchanged; for a product not in the cart it does not
\* fail with ItemNotFound and leaves the items unchanged; a second removeItem
\* of the same product leaves the items as the first left them.
C19_RemoveItem ==
  [][CartStep("removeItem") =>
       LET c == cartOp'.cart
           p == cartOp'.product
           before == carts[c].items
           after == carts'[c].items
       IN /\ cartOp'.result \in {"saved", "error"}
          /\ cartOp'.result = "saved" =>
               /\ after = SelectSeq(before, LAMBDA l : l.product # p)
               /\ (\A k \in DOMAIN before : before[k].product # p) => after = before
               /\ (cartOp.op = "removeItem" /\ cartOp.result = "saved"
                     /\ cartOp.cart = c /\ cartOp.product = p) => after = before]_vars

\* a removeItem of a product that is not in a cart with a line was saved
C19_Witness ==
  /\ cartOp.op = "removeItem" /\ ~cartOp.found /\ cartOp.result = "saved"
  /\ carts[cartOp.cart].items # <<>>
====
